---- MODULE Spec2Model ----
(***************************************************************************)
(* Model of MedicalBlogGenerator (src/app.py): the search-result parser,   *)
(* the fallback provider, the post generator, the per-topic cache kept in  *)
(* session_state and the run() workflow that sequences them.               *)
(*                                                                         *)
(* Text is a sequence of lexemes.  A lexeme is one of the characters the   *)
(* code looks at (" ", "\n", ":", "#"), the separator "---", or a word     *)
(* that contains none of them.  split, strip, startswith and lower are     *)
(* computed on these sequences as Python computes them on characters.      *)
(***************************************************************************)
EXTENDS Integers, Sequences, FiniteSets, TLC

VARIABLES
    cache,      \* session_state["medical_blog_posts"]: topic -> MedicalBlogPost
    now,        \* the day datetime.datetime.now() falls on
    started,    \* number of run() invocations begun so far
    prev,       \* how the invocation that terminated most recently ended
    run,        \* per caller: its invocation's position and locals (see IdleRun)
    items,      \* parser harness: the lines and separators of a search reply
    parsedOut,  \* parser harness: what _parse_search_results returned
    comp        \* generator harness: a reply of content_agent.run and what is made of it

vars == <<cache, now, started, prev, run, items, parsedOut, comp>>

-----------------------------------------------------------------------------
(* Bounds *)

\* invocations of run() in one behaviour
MaxRuns == 3
\* days the clock may advance
MaxDay == 1
\* lines and separators in a search reply of the parser harness
MaxItems == 5
\* lexemes in a reply of the generator harness
MaxBody == 4

\* the callers: one in the synchronous program, two when invocations race
Callers == {1, 2}
Topics == {"sepsis", "asthma"}

-----------------------------------------------------------------------------
(* Python string primitives on lexeme sequences *)

SetMin(S) == CHOOSE m \in S : \A k \in S : m <= k
SetMax(S) == CHOOSE m \in S : \A k \in S : m >= k

IsSpace(c) == c \in {" ", "\n"}

\* str.strip()
Strip(s) ==
    LET keep == {i \in 1..Len(s) : ~IsSpace(s[i])}
    IN  IF keep = {} THEN <<>> ELSE SubSeq(s, SetMin(keep), SetMax(keep))

\* str.split(sep): every piece, empty ones included
RECURSIVE Split(_, _)
Split(s, sep) ==
    LET at == {i \in 1..Len(s) : s[i] = sep}
    IN  IF at = {} THEN <<s>>
        ELSE <<SubSeq(s, 1, SetMin(at) - 1)>>
             \o Split(SubSeq(s, SetMin(at) + 1, Len(s)), sep)

\* mutant: cut at the last sep (rsplit)
SplitLast(s, sep) ==
    LET i == SetMax({k \in 1..Len(s) : s[k] = sep})
    IN  <<SubSeq(s, 1, i - 1), SubSeq(s, i + 1, Len(s))>>

\* str.split(sep, 1): cut at the first sep only (sep is known to occur)
SplitFirst(s, sep) ==
    LET i == SetMin({k \in 1..Len(s) : s[k] = sep})
    IN  <<SubSeq(s, 1, i - 1), SubSeq(s, i + 1, Len(s))>>

\* len(str.split()): maximal runs of non-whitespace
WordCount(s) ==
    Cardinality({i \in 1..Len(s) :
                    ~IsSpace(s[i]) /\ (i = 1 \/ IsSpace(s[i - 1]))})

\* str.lower() on the words a reply may use as keys
Lower(w) ==
    CASE w \in {"Title", "TITLE", "title"} -> "title"
      [] w \in {"URL", "Url", "url"} -> "url"
      [] w \in {"Journal", "journal"} -> "journal"
      [] w \in {"Date", "date"} -> "date"
      [] w \in {"Authors", "authors"} -> "authors"
      [] w = "Note" -> "note"
      [] OTHER -> w

\* datetime.datetime.now().strftime("%Y-%m-%d")
Strftime(d) == "2025-01-0" \o ToString(d + 1)

RECURSIVE Flatten(_)
Flatten(ss) == IF ss = <<>> THEN <<>> ELSE Head(ss) \o Flatten(Tail(ss))

\* sep.join(parts)
RECURSIVE Join(_, _)
Join(parts, sep) ==
    IF parts = <<>> THEN <<>>
    ELSE IF Len(parts) = 1 THEN parts[1]
    ELSE parts[1] \o sep \o Join(Tail(parts), sep)

-----------------------------------------------------------------------------
(* MedicalArticle, MedicalBlogPost *)

MedicalArticle(title, journal, url, date, hasAuthors, authors) ==
    [title |-> title, journal |-> journal, url |-> url, date |-> date,
     hasAuthors |-> hasAuthors, authors |-> authors]

MedicalBlogPost(content, word_count, sources) ==
    [content |-> content, word_count |-> word_count, sources |-> sources]

\* Python's None where a MedicalBlogPost is expected
NoPost == [content |-> <<>>, word_count |-> 0 - 1, sources |-> <<>>]

-----------------------------------------------------------------------------
(* _parse_search_results *)

RecognizedKeys == {"title", "authors", "journal", "date", "url"}

\* article_data after one line of a section
ParseLine(data, rawLine) ==
    LET line == Strip(rawLine)
    IN  IF \E i \in 1..Len(line) : line[i] = ":"
        THEN LET kv    == SplitFirst(line, ":")
                 key   == Strip(kv[1])
                 value == Strip(kv[2])
             IN  IF Len(key) = 1 /\ Lower(key[1]) \in RecognizedKeys
                 THEN [k \in DOMAIN data \cup {Lower(key[1])} |->
                          IF k = Lower(key[1]) THEN value ELSE data[k]]
                 ELSE data
        ELSE data

RECURSIVE ParseLines(_, _)
ParseLines(data, lines) ==
    IF lines = <<>> THEN data
    ELSE ParseLines(ParseLine(data, Head(lines)), Tail(lines))

\* dict.get(key, default)
Get(data, k, default) == IF k \in DOMAIN data THEN data[k] ELSE default

\* The articles one section contributes: one or none
ParseSection(rawSection, day) ==
    LET section == Strip(rawSection)
    IN  IF section = <<>> THEN <<>>
        ELSE LET data == ParseLines([k \in {} |-> <<>>], Split(section, "\n"))
             IN  IF Get(data, "title", <<>>) # <<>> /\ Get(data, "url", <<>>) # <<>>
                 THEN <<MedicalArticle(
                            data["title"],
                            Get(data, "journal", <<"Medical", " ", "Journal">>),
                            data["url"],
                            Get(data, "date", <<Strftime(day)>>),
                            "authors" \in DOMAIN data,
                            Get(data, "authors", <<>>))>>
                 ELSE <<>>

RECURSIVE ParseSections(_, _)
ParseSections(sections, day) ==
    IF sections = <<>> THEN <<>>
    ELSE ParseSection(Head(sections), day) \o ParseSections(Tail(sections), day)

\* A response is [isStr, content]: content is a str, or something else (None)
ParseSearchResults(response, day) ==
    IF response.isStr
    THEN ParseSections(Split(response.content, "---"), day)
    ELSE <<>>

-----------------------------------------------------------------------------
(* _get_fallback_articles *)

GetFallbackArticles(t, day) ==
    << MedicalArticle(<<"Current", " ", "Management", " ", "of", " ", t>>,
                      <<"UpToDate">>,
                      <<"https", ":", "//www.uptodate.com">>,
                      <<Strftime(day)>>, TRUE, <<"Medical", " ", "Faculty">>),
       MedicalArticle(<<"Clinical", " ", "Practice", " ", "Guidelines", " ", "for", " ", t>>,
                      <<"PubMed", " ", "Central">>,
                      <<"https", ":", "//www.ncbi.nlm.nih.gov/pmc">>,
                      <<Strftime(day)>>, TRUE, <<"Medical", " ", "Associations">>) >>

-----------------------------------------------------------------------------
(* fetch_recent_articles: what it returns at each of its exits *)

\* mutant: no truncation
TopThreeUncut(articles) == articles

\* articles[:3]
TopThree(articles) == SubSeq(articles, 1, IF Len(articles) < 3 THEN Len(articles) ELSE 3)

\* mutant: the broadened search is never tried
NeedsBroaderSearchNever(articles) == FALSE

\* line 155: `if not articles` after the targeted search
NeedsBroaderSearch(articles) == articles = <<>>

\* line 171: articles[:3] if articles else self._get_fallback_articles()
FetchResult(articles, t, day) ==
    IF articles # <<>> THEN TopThree(articles) ELSE GetFallbackArticles(t, day)

\* mutant: the except branch returns an empty list
FetchOnExceptionEmpty(t, day) == <<>>

\* line 175: the except branch
FetchOnException(t, day) == GetFallbackArticles(t, day)

-----------------------------------------------------------------------------
(* generate_blog_post *)

StartsWithHeading(content) ==
    Len(content) >= 2 /\ content[1] = "#" /\ content[2] = " "

Heading(t) == <<"#", " ", "Latest", " ", "Evidence", ":", " ", t, "\n", "\n">>

\* lines 289-292
PostContent(t, body) ==
    LET content == Strip(body)
    IN  IF StartsWithHeading(content) THEN content ELSE Heading(t) \o content

\* mutant: the words are counted before the heading is prepended
GenerateBlogPostRawCount(t, articles, body) ==
    MedicalBlogPost(PostContent(t, body), WordCount(body), articles)

\* lines 294-298
GenerateBlogPost(t, articles, body) ==
    MedicalBlogPost(PostContent(t, body), WordCount(PostContent(t, body)), articles)

-----------------------------------------------------------------------------
(* run: the final document, lines 321-330 *)

ReferenceLine(a) ==
    <<"-", " ">> \o a.journal \o <<":", " ", "[">> \o a.title \o <<"](">>
    \o a.url \o <<")">>

References(sources) ==
    Join([i \in 1..Len(sources) |-> ReferenceLine(sources[i])], <<"\n">>)

\* what follows {blog_post.content} in the f-string; "(books)" stands for the
\* emoji of the References heading
Appendix(post, day) ==
    <<"\n", "\n", "---", "\n", "###", " ", "(books)", " ", "References", "\n">>
    \o References(post.sources)
    \o <<"\n", "\n", "---", "\n", "*Word", " ", "count", ":", " ",
         ToString(post.word_count), "*", " ", " ", "\n",
         "Generated", ":", " ", Strftime(day), "\n">>

FinalPost(post, day) == post.content \o Appendix(post, day)

-----------------------------------------------------------------------------
(* The cache: get_cached_blog_post, add_blog_post_to_cache *)

EmptyCache == [t \in {} |-> NoPost]

\* mutant: the lookup never finds the entry
GetCachedBlogPostNever(c, t) == NoPost

GetCachedBlogPost(c, t) == IF t \in DOMAIN c THEN c[t] ELSE NoPost

\* mutant: an entry already there is kept (setdefault)
AddBlogPostToCacheIfAbsent(c, t, post) ==
    [k \in DOMAIN c \cup {t} |-> IF k \in DOMAIN c THEN c[k] ELSE post]

AddBlogPostToCache(c, t, post) ==
    [k \in DOMAIN c \cup {t} |-> IF k = t THEN post ELSE c[k]]

\* `if cached_post:` a MedicalBlogPost is truthy, None is not
Truthy(post) == post # NoPost

-----------------------------------------------------------------------------
(* The collaborators: what search_agent.run and content_agent.run may do *)

Str(content) == [isStr |-> TRUE, content |-> content]
NotStr == [isStr |-> FALSE, content |-> <<>>]

Block(title, url) ==
    <<"Title", ":", " ", title, "\n", "URL", ":", " ", "https", ":", "//", url, "\n",
      "---", "\n">>

\* no block at all
ReplyEmpty == <<>>
\* one block without a title
ReplyMalformed ==
    <<"Journal", ":", " ", "Lancet", "\n", "Date", ":", " ", "2024", "\n", "---", "\n">>
\* one complete block
ReplyOne ==
    <<"Title", ":", " ", "Sepsis", " ", "Trial", "\n",
      "Authors", ":", " ", "Doe", "\n",
      "Journal", ":", " ", "NEJM", "\n",
      "Date", ":", " ", "2024", "\n",
      "URL", ":", " ", "https", ":", "//nejm.org/1", "\n", "---", "\n">>
\* five blocks of title and url
ReplyFive ==
    Block("A", "a") \o Block("B", "b") \o Block("C", "c") \o Block("D", "d")
    \o Block("E", "e")

SearchReplies ==
    {NotStr, Str(ReplyEmpty), Str(ReplyMalformed), Str(ReplyOne), Str(ReplyFive)}

GenReplies ==
    { NotStr,
      Str(<<"\n", " ", "#", " ", "Review", "\n", "Fluids", " ", "first", " ", "\n">>),
      Str(<<"Early", " ", "antibiotics", " ", "matter", ".">>) }

-----------------------------------------------------------------------------
(* run(): one record per caller, for the invocation it is in *)

\* how an invocation ended: outcome is none, hit, stored or failed
\* (stored: it cached `post`), for which topic and flag, and which caller's it was
NoPrev == [outcome |-> "none", topic |-> "sepsis", useCache |-> TRUE,
           post |-> NoPost, by |-> 0]

IdleRun ==
    [ pc        |-> "idle",   \* idle, search, broaden, generate, store, done, failed
      topic     |-> "sepsis", \* self.topic
      useCache  |-> TRUE,     \* use_cache
      articles  |-> <<>>,     \* articles (line 315)
      blogPost  |-> NoPost,   \* blog_post (line 318)
      emitted   |-> <<>>,     \* content of the RunResponse yielded
      body      |-> <<>>,     \* history: response.content of content_agent.run
      parsed    |-> <<>>,     \* history: each result of _parse_search_results
      searchErr |-> FALSE,    \* history: fetch_recent_articles took its except branch
      nSearch   |-> 0,        \* history: calls of search_agent.run
      nGen      |-> 0,        \* history: calls of content_agent.run
      nPut      |-> 0,        \* history: calls of add_blog_post_to_cache
      pred      |-> NoPrev ]  \* history: how the invocation this one follows ended

NotParsed == [done |-> FALSE, articles |-> <<>>]

Draft == [stage |-> "draft", topic |-> "sepsis", body |-> <<>>,
          post |-> NoPost, final |-> <<>>]

InFlight(r) == run[r].pc \in {"search", "broaden", "generate", "store"}

Init ==
    /\ cache = EmptyCache
    /\ now = 0
    /\ started = 0
    /\ prev = NoPrev
    /\ run = [r \in Callers |-> IdleRun]
    /\ items = <<>>
    /\ parsedOut = NotParsed
    /\ comp = Draft

Ended(r, outcome, post) ==
    [outcome |-> outcome, topic |-> run[r].topic, useCache |-> run[r].useCache,
     post |-> post, by |-> r]

\* mutant: the flag is ignored
CacheAlwaysConsulted(uc) == TRUE

\* line 304: `if use_cache:`
CacheConsulted(uc) == uc

\* lines 300-313: the invocation starts and checks the cache
Start(r, t, uc) ==
    /\ ~InFlight(r)
    /\ started < MaxRuns
    /\ started' = started + 1
    /\ LET cached == GetCachedBlogPost(cache, t)
           begun  == [IdleRun EXCEPT
                        !.topic = t, !.useCache = uc,
                        !.pred = IF \E q \in Callers : InFlight(q) THEN NoPrev ELSE prev]
       IN  IF CacheConsulted(uc) /\ Truthy(cached)
           THEN /\ run' = [run EXCEPT ![r] =
                              [begun EXCEPT !.pc = "done", !.emitted = cached.content]]
                /\ prev' = [outcome |-> "hit", topic |-> t, useCache |-> uc,
                            post |-> NoPost, by |-> r]
           ELSE /\ run' = [run EXCEPT ![r] = [begun EXCEPT !.pc = "search"]]
                /\ prev' = prev
    /\ UNCHANGED <<cache, now, items, parsedOut, comp>>

\* lines 152-155 and 171-175: the targeted search raises, or its reply is parsed
Search(r) ==
    /\ run[r].pc = "search"
    /\ \/ run' = [run EXCEPT ![r].pc = "generate",
                             ![r].nSearch = @ + 1,
                             ![r].searchErr = TRUE,
                             ![r].articles = FetchOnException(run[r].topic, now)]
       \/ \E reply \in SearchReplies :
            LET articles == ParseSearchResults(reply, now)
            IN  run' = [run EXCEPT
                    ![r].nSearch = @ + 1,
                    ![r].parsed = Append(@, articles),
                    ![r].pc = IF NeedsBroaderSearch(articles) THEN "broaden"
                              ELSE "generate",
                    ![r].articles = IF NeedsBroaderSearch(articles) THEN <<>>
                                    ELSE FetchResult(articles, run[r].topic, now)]
    /\ UNCHANGED <<cache, now, started, prev, items, parsedOut, comp>>

\* lines 156-175: the broadened search raises, or its reply is parsed
Broaden(r) ==
    /\ run[r].pc = "broaden"
    /\ \/ run' = [run EXCEPT ![r].pc = "generate",
                             ![r].nSearch = @ + 1,
                             ![r].searchErr = TRUE,
                             ![r].articles = FetchOnException(run[r].topic, now)]
       \/ \E reply \in SearchReplies :
            LET articles == ParseSearchResults(reply, now)
            IN  run' = [run EXCEPT
                    ![r].nSearch = @ + 1,
                    ![r].parsed = Append(@, articles),
                    ![r].pc = "generate",
                    ![r].articles = FetchResult(articles, run[r].topic, now)]
    /\ UNCHANGED <<cache, now, started, prev, items, parsedOut, comp>>

\* mutant: the entry is written before generation is known to have succeeded, so a
\* failure leaves None cached for the topic
GenerateCachingEarly(r) ==
    /\ run[r].pc = "generate"
    /\ \/ /\ run' = [run EXCEPT ![r].pc = "failed", ![r].nGen = @ + 1]
          /\ prev' = Ended(r, "failed", NoPost)
          /\ cache' = AddBlogPostToCache(cache, run[r].topic, NoPost)
       \/ \E reply \in GenReplies :
            /\ reply.isStr
            /\ run' = [run EXCEPT
                    ![r].pc = "store",
                    ![r].nGen = @ + 1,
                    ![r].body = reply.content,
                    ![r].blogPost = GenerateBlogPost(run[r].topic, run[r].articles,
                                                     reply.content)]
            /\ prev' = prev
            /\ cache' = cache
    /\ UNCHANGED <<now, started, items, parsedOut, comp>>

\* lines 318, 287-298: content_agent.run raises, returns no str (strip raises),
\* or returns the prose the post is built from
Generate(r) ==
    /\ run[r].pc = "generate"
    /\ \/ /\ run' = [run EXCEPT ![r].pc = "failed", ![r].nGen = @ + 1]
          /\ prev' = Ended(r, "failed", NoPost)
       \/ \E reply \in GenReplies :
            IF reply.isStr
            THEN /\ run' = [run EXCEPT
                        ![r].pc = "store",
                        ![r].nGen = @ + 1,
                        ![r].body = reply.content,
                        ![r].blogPost = GenerateBlogPost(run[r].topic, run[r].articles,
                                                         reply.content)]
                 /\ prev' = prev
            ELSE /\ run' = [run EXCEPT ![r].pc = "failed", ![r].nGen = @ + 1]
                 /\ prev' = Ended(r, "failed", NoPost)
    /\ UNCHANGED <<cache, now, started, items, parsedOut, comp>>

\* lines 319-336: the post is cached, the final document assembled and yielded
Store(r) ==
    /\ run[r].pc = "store"
    /\ cache' = AddBlogPostToCache(cache, run[r].topic, run[r].blogPost)
    /\ run' = [run EXCEPT ![r].pc = "done",
                          ![r].nPut = @ + 1,
                          ![r].emitted = FinalPost(run[r].blogPost, now)]
    /\ prev' = Ended(r, "stored", run[r].blogPost)
    /\ UNCHANGED <<now, started, items, parsedOut, comp>>

\* the calendar day changes
Tick ==
    /\ now < MaxDay
    /\ now' = now + 1
    /\ UNCHANGED <<cache, started, prev, run, items, parsedOut, comp>>

\* The program as written: synchronous, one invocation after another
Next ==
    \/ \E t \in Topics, uc \in BOOLEAN : Start(1, t, uc)
    \/ Search(1)
    \/ Broaden(1)
    \/ Generate(1)
    \/ Store(1)
    \/ Tick

Spec == Init /\ [][Next]_vars

\* Two callers sharing one session state, one invocation each, in any interleaving
StartOnce(r, t, uc) == run[r].pc = "idle" /\ Start(r, t, uc)

NextRace ==
    \/ \E r \in Callers, t \in Topics, uc \in BOOLEAN : StartOnce(r, t, uc)
    \/ \E r \in Callers : Search(r)
    \/ \E r \in Callers : Broaden(r)
    \/ \E r \in Callers : Generate(r)
    \/ \E r \in Callers : Store(r)
    \/ Tick

SpecRace == Init /\ [][NextRace]_vars

-----------------------------------------------------------------------------
(* Parser harness: a search reply is written line by line, then parsed *)

\* what a line of the reply is meant to carry: its key (lower case, "" when the
\* line sets none of the five fields) and its value
Item(text, key, value) == [text |-> text, key |-> key, value |-> value]

Separator == Item(<<"---">>, "---", <<>>)

ItemMenu ==
    { Item(<<"Title", ":", " ", "A">>, "title", <<"A">>),
      Item(<<" ", "title", " ", ":", " ", "B", " ", "C", " ">>, "title", <<"B", " ", "C">>),
      Item(<<"Title", ":">>, "title", <<>>),
      Item(<<"URL", ":", " ", "https", ":", "//a">>, "url", <<"https", ":", "//a">>),
      Item(<<"Note", ":", " ", "Title", ":", " ", "Z">>, "", <<>>),
      Item(<<"see", " ", "above">>, "", <<>>),
      Separator }

\* the reply's text: every line and separator on a line of its own
Render(its) == Flatten([i \in 1..Len(its) |-> its[i].text \o <<"\n">>])

AddItem(it) ==
    /\ ~parsedOut.done
    /\ Len(items) < MaxItems
    /\ items' = Append(items, it)
    /\ UNCHANGED <<cache, now, started, prev, run, parsedOut, comp>>

ParseReply ==
    /\ ~parsedOut.done
    /\ parsedOut' = [done |-> TRUE,
                     articles |-> ParseSearchResults(Str(Render(items)), now)]
    /\ UNCHANGED <<cache, now, started, prev, run, items, comp>>

NextParse ==
    \/ \E it \in ItemMenu : AddItem(it)
    \/ ParseReply

SpecParse == Init /\ [][NextParse]_vars

-----------------------------------------------------------------------------
(* Generator harness: a reply of content_agent.run is written lexeme by      *)
(* lexeme, the post is built from it and the final document assembled        *)

BodyLexemes == {"#", "##", " ", "\n", "sepsis"}

SourceMenu(t) ==
    { GetFallbackArticles(t, now),
      TopThree(ParseSearchResults(Str(ReplyFive), now)) }

TypeBody(c) ==
    /\ comp.stage = "draft"
    /\ Len(comp.body) < MaxBody
    /\ comp' = [comp EXCEPT !.body = Append(@, c)]
    /\ UNCHANGED <<cache, now, started, prev, run, items, parsedOut>>

Compose(t, sources) ==
    /\ comp.stage = "draft"
    /\ comp' = [comp EXCEPT !.stage = "posted", !.topic = t,
                            !.post = GenerateBlogPost(t, sources, comp.body)]
    /\ UNCHANGED <<cache, now, started, prev, run, items, parsedOut>>

Assemble ==
    /\ comp.stage = "posted"
    /\ comp' = [comp EXCEPT !.stage = "final", !.final = FinalPost(comp.post, now)]
    /\ UNCHANGED <<cache, now, started, prev, run, items, parsedOut>>

NextCompose ==
    \/ \E c \in BodyLexemes : TypeBody(c)
    \/ \E t \in Topics : \E sources \in SourceMenu(t) : Compose(t, sources)
    \/ Assemble

SpecCompose == Init /\ [][NextCompose]_vars

-----------------------------------------------------------------------------
(* Claims *)

Fetched(r) == run[r].pc \in {"generate", "store", "done", "failed"}

\* the fallback pair of a topic, dated any day up to now
IsFallback(articles, t) == \E d \in 0..now : articles = GetFallbackArticles(t, d)

\* what the last search of the invocation parsed to (none yet: nothing)
LastParsed(r) ==
    IF run[r].parsed = <<>> THEN <<>> ELSE run[r].parsed[Len(run[r].parsed)]

\* this invocation directly follows one that cached a post for the same topic
FollowsStore(r) ==
    /\ run[r].pc = "done"
    /\ run[r].useCache
    /\ run[r].pred.outcome = "stored"
    /\ run[r].pred.topic = run[r].topic

\* C1: an invocation with use_cache that directly follows a successful one for
\* the same topic calls neither collaborator, and yields exactly the content of
\* the post the first one cached.
C1_CacheIdempotence ==
    \A r \in Callers :
        FollowsStore(r) =>
            /\ run[r].nSearch = 0
            /\ run[r].nGen = 0
            /\ run[r].nPut = 0
            /\ run[r].emitted = run[r].pred.post.content

C1_Witness ==
    \E r \in Callers : FollowsStore(r) /\ run[r].pred.useCache

\* C3: once search_agent.run or the parsing has raised, in the targeted or the
\* broadened search, the invocation does not fail on it: the articles are the
\* fallback pair of the topic, no further search is made, and the invocation
\* is at generation or beyond (it fails only if generation fails).
C3_SearchFailureRecovered ==
    \A r \in Callers :
        /\ run[r].searchErr =>
              /\ Fetched(r)
              /\ IsFallback(run[r].articles, run[r].topic)
              /\ run[r].nSearch = Len(run[r].parsed) + 1
              /\ run[r].pc \in {"store", "done"} =>
                    run[r].blogPost.sources = run[r].articles
        /\ run[r].pc = "failed" => run[r].nGen = 1

C3_Witness ==
    \E r \in Callers :
        /\ run[r].searchErr
        /\ run[r].pc = "done"
        /\ run[r].nSearch = 2
        /\ run[r].nPut = 1

\* C4: on a cache miss, a targeted search that parses to nothing is followed by
\* exactly one broadened search; when that parses to nothing too, the articles
\* are the fallback pair of the topic; and when either search parsed to at
\* least one article, the fallback pair is not used.
C4_BroadenThenFallback ==
    \A r \in Callers :
        /\ run[r].pc = "broaden" =>
              run[r].nSearch = 1 /\ run[r].parsed = << <<>> >>
        /\ (Fetched(r) /\ Len(run[r].parsed) >= 1) =>
              IF run[r].parsed[1] = <<>>
              THEN /\ run[r].nSearch = 2
                   /\ Len(run[r].parsed) = 2 =>
                         IF run[r].parsed[2] = <<>>
                         THEN IsFallback(run[r].articles, run[r].topic)
                         ELSE ~IsFallback(run[r].articles, run[r].topic)
              ELSE /\ run[r].nSearch = 1
                   /\ ~run[r].searchErr
                   /\ ~IsFallback(run[r].articles, run[r].topic)

C4_Witness ==
    \E r \in Callers :
        /\ run[r].pc = "done"
        /\ run[r].parsed = << <<>>, <<>> >>
        /\ ~run[r].searchErr
        /\ run[r].blogPost.sources = GetFallbackArticles(run[r].topic, now)

\* C5: when the last search parsed to n >= 1 articles, generation is given
\* exactly the first min(n, 3) of them, in order; the sources of every cached
\* post number between 1 and 3.
C5_TopThree ==
    /\ \A r \in Callers :
          (Fetched(r) /\ ~run[r].searchErr /\ LastParsed(r) # <<>>) =>
              LET found == LastParsed(r)
                  n     == Len(found)
              IN  /\ Len(run[r].articles) = IF n < 3 THEN n ELSE 3
                  /\ \A i \in 1..Len(run[r].articles) : run[r].articles[i] = found[i]
                  /\ run[r].pc \in {"store", "done"} =>
                        run[r].blogPost.sources = run[r].articles
    /\ \A t \in DOMAIN cache : Len(cache[t].sources) \in 1..3

C5_Witness ==
    \E r \in Callers :
        /\ run[r].pc = "done"
        /\ ~run[r].searchErr
        /\ Len(LastParsed(r)) = 5
        /\ Len(cache[run[r].topic].sources) = 3

\* the step on which an invocation fails: it is the generation step, nothing
\* is yielded or cached by the invocation, and the cache is left as it is
C2_FailedStep(r) ==
    (run[r].pc # "failed" /\ run'[r].pc = "failed") =>
        /\ run[r].pc = "generate"
        /\ run'[r].emitted = <<>>
        /\ run'[r].nPut = 0
        /\ cache' = cache
        /\ prev'.outcome = "failed" /\ prev'.by = r

\* a step that changes the cache is the store step of an invocation whose
\* search (or fallback) and generation have both completed
C2_CacheWrite ==
    cache' # cache =>
        \E r \in Callers :
            /\ run[r].pc = "store" /\ run'[r].pc = "done"
            /\ run[r].nSearch >= 1
            /\ run[r].nGen = 1
            /\ run[r].articles # <<>>
            /\ run[r].blogPost # NoPost
            /\ run'[r].nPut = 1

\* C2: when generation fails the invocation ends failed with nothing yielded
\* and nothing cached by it, no step of a failing invocation changes the
\* cache, and the only step that changes the cache is the store step of an
\* invocation whose search (or fallback) and generation have both completed.
C2_NoPartialPersistence ==
    [][(\A r \in Callers : C2_FailedStep(r)) /\ C2_CacheWrite]_vars

C2_Witness ==
    \E r \in Callers :
        /\ run[r].pc = "failed"
        /\ run[r].topic \in DOMAIN cache
        /\ run[r].pred.outcome = "stored"
        /\ cache[run[r].topic] = run[r].pred.post

\* C6 as claimed: the post a cache-miss invocation has just cached has as its
\* content the final document the same invocation yields.
C6_CachedContentIsFinalDocument ==
    \A r \in Callers :
        (run[r].pc = "done" /\ run[r].nPut = 1 /\ prev.by = r) =>
            cache[run[r].topic].content = run[r].emitted

\* an invocation with use_cache off is done only after a search, a generation
\* and a store; one with use_cache on that directly follows it for the same
\* topic yields the content of the post it stored
C10_NoCacheRun ==
    \A r \in Callers :
        /\ (~run[r].useCache /\ run[r].pc = "done") =>
              /\ run[r].nSearch >= 1
              /\ run[r].nGen = 1
              /\ run[r].nPut = 1
              /\ prev.by = r => cache[run[r].topic] = run[r].blogPost
        /\ (FollowsStore(r) /\ ~run[r].pred.useCache) =>
              /\ run[r].nPut = 0
              /\ run[r].emitted = run[r].pred.post.content

\* the store step sets the entry of the invocation's topic and no other
C10_StoreFrame(r) ==
    (run[r].pc = "store" /\ run'[r].pc = "done") =>
        /\ DOMAIN cache' = DOMAIN cache \cup {run[r].topic}
        /\ cache'[run[r].topic] = run[r].blogPost
        /\ \A t \in DOMAIN cache \ {run[r].topic} : cache'[t] = cache[t]

\* C10: an invocation with use_cache off never ends by returning the cached
\* entry: it ends done only after searching (or falling back), generating and
\* storing; its store step overwrites the entry of its topic and leaves every
\* other entry as it was; and an invocation with use_cache on that directly
\* follows it for the same topic yields the content of the newly stored post.
C10_CacheDisabled ==
    []C10_NoCacheRun /\ [][\A r \in Callers : C10_StoreFrame(r)]_vars

C10_Witness ==
    \E r \in Callers :
        /\ run[r].pc = "done"
        /\ ~run[r].useCache
        /\ run[r].pred.outcome = "stored"
        /\ run[r].pred.topic = run[r].topic
        /\ run[r].pred.post # run[r].blogPost
        /\ DOMAIN cache = Topics
        /\ cache[run[r].topic] = run[r].blogPost

\* What C7 expects of a reply written item by item: a block's title and url are
\* the values of its last title and url lines, and the block gives an article
\* exactly when both are non-empty.
ExpectedArticle(title, url) ==
    IF title # <<>> /\ url # <<>>
    THEN <<MedicalArticle(title, <<"Medical", " ", "Journal">>, url,
                          <<Strftime(now)>>, FALSE, <<>>)>>
    ELSE <<>>

RECURSIVE Expected(_, _, _)
Expected(its, title, url) ==
    IF its = <<>> THEN ExpectedArticle(title, url)
    ELSE IF Head(its) = Separator
    THEN ExpectedArticle(title, url) \o Expected(Tail(its), <<>>, <<>>)
    ELSE Expected(Tail(its),
                  IF Head(its).key = "title" THEN Head(its).value ELSE title,
                  IF Head(its).key = "url" THEN Head(its).value ELSE url)

\* C7: the parser returns one article for each "---"-delimited block whose
\* title and url resolve to non-empty values (first-colon split, trimmed, keys
\* matched without case, the last duplicate winning), none for any other
\* block, in block order and without removing duplicates.
C7_ParserBlocks ==
    parsedOut.done => parsedOut.articles = Expected(items, <<>>, <<>>)

C7_Witness ==
    /\ parsedOut.done
    /\ Len(parsedOut.articles) = 2
    /\ parsedOut.articles[1].title = <<"B", " ", "C">>
    /\ parsedOut.articles[2].title = <<"A">>

\* whitespace-separated tokens, counted piece by piece
RECURSIVE CountNonEmpty(_)
CountNonEmpty(pieces) ==
    IF pieces = <<>> THEN 0
    ELSE (IF Head(pieces) = <<>> THEN 0 ELSE 1) + CountNonEmpty(Tail(pieces))

TokenCount(s) ==
    LET bySpace == Split(s, " ")
    IN  CountNonEmpty(Flatten([i \in 1..Len(bySpace) |-> Split(bySpace[i], "\n")]))

\* C8: word_count is the number of whitespace-separated tokens of the content
\* the post is built from (the reply, with the four tokens of the heading when
\* one is prepended); the tokens of the References section and of the footer
\* are not counted, and the footer shows that same number.
C8_WordCount ==
    comp.stage # "draft" =>
        LET content == comp.post.content
            tail    == SubSeq(comp.final, Len(content) + 1, Len(comp.final))
        IN  /\ comp.post.word_count = TokenCount(content)
            /\ comp.post.word_count =
                  TokenCount(comp.body)
                  + (IF StartsWithHeading(Strip(comp.body)) THEN 0 ELSE 4)
            /\ comp.stage = "final" =>
                  /\ SubSeq(comp.final, 1, Len(content)) = content
                  /\ TokenCount(tail) >= 8
                  /\ TokenCount(comp.final) = comp.post.word_count + TokenCount(tail)
                  /\ comp.final[Len(comp.final) - 9] = ToString(comp.post.word_count)

C8_Witness ==
    /\ comp.stage = "final"
    /\ comp.body = <<"sepsis", " ", "##", "\n">>
    /\ comp.post.word_count = 6
    /\ Len(comp.post.sources) = 3

\* two invocations for one topic that both missed and both stored, the second
\* begun while the first was in flight
Raced(r, q) ==
    /\ r # q
    /\ run[r].pc = "done" /\ run[q].pc = "done"
    /\ run[r].topic = run[q].topic
    /\ run[r].nPut = 1 /\ run[q].nPut = 1
    /\ run[r].pred.outcome = "none" /\ run[q].pred.outcome = "none"

\* C9: when two invocations for the same topic interleave and both miss, an
\* invocation in flight can always take its next step whatever the other is
\* doing, each makes its own search and generation and yields its own document,
\* and once both are done the entry of the topic is the post of whichever
\* stored last.
C9_LastWriterWins ==
    \A r, q \in Callers :
        /\ InFlight(r) =>
              ENABLED (Search(r) \/ Broaden(r) \/ Generate(r) \/ Store(r))
        /\ Raced(r, q) =>
              /\ run[r].nSearch >= 1 /\ run[r].nGen = 1
              /\ \E d \in 0..now : run[r].emitted = FinalPost(run[r].blogPost, d)
              /\ prev.outcome = "stored"
              /\ prev.by \in {r, q}
              /\ cache[run[r].topic] = run[prev.by].blogPost

C9_Witness ==
    \E r, q \in Callers :
        /\ Raced(r, q)
        /\ run[r].useCache /\ run[q].useCache
        /\ run[r].blogPost # run[q].blogPost
        /\ prev.by = r
        /\ cache[run[r].topic] = run[r].blogPost

====
